---- MODULE Spec2Model ----
(***************************************************************************)
(* A model of the research-loop driver (run.py) and of the SearXNG search  *)
(* tool (src/tools/search_tools.py).                                       *)
(*                                                                         *)
(* Spec     : one run of run.py, from module import to process exit.       *)
(* SpecTool : calls of SearXNGSearchTool._run.                             *)
(***************************************************************************)
EXTENDS Integers, Sequences, FiniteSets, TLC

VARIABLES
    pc,                          \* position of the run in run.py
    args,                        \* parse_arguments(): [yes, skip_planning]
    disk,                        \* artifact file -> its text, or Absent
    written,                     \* artifacts written by a crew during this run
    logsDir,                     \* whether LOGS_DIR exists
    handlers,                    \* logger.handlers of the root logger
    openLogs,                    \* FileHandlers whose stream is open, oldest first
    loggerCalls,                 \* the setup_logger calls made so far, in order
    running,                     \* crews whose kickoff() has not returned yet
    kickoffs,                    \* crew -> number of kickoff() calls
    received,                    \* crew -> what its task prompts were built from
    phaseLog,                    \* the "--- PHASE n" banners logged, in order
    returned,                    \* phase handlers that have returned to main
    methodology_content,         \* main's local (run.py:592)
    experiment_protocol_content, \* main's local (run.py:593)
    experiment_results_content,  \* main's local (run.py:597)
    prompted,                    \* the approval prompt was printed (run.py:371)
    keyRead,                     \* the key read at the checkpoint, or NoKey
    exitStatus,                  \* process exit status, or Running
    lastError,                   \* why the run ended early
    tool                         \* state of a SearXNGSearchTool._run call

vars == <<pc, args, disk, written, logsDir, handlers, openLogs, loggerCalls, running, kickoffs,
          received, phaseLog, returned, methodology_content,
          experiment_protocol_content, experiment_results_content,
          prompted, keyRead, exitStatus, lastError, tool>>

driverVars == <<pc, args, disk, written, logsDir, handlers, openLogs, loggerCalls, running, kickoffs,
                received, phaseLog, returned, methodology_content,
                experiment_protocol_content, experiment_results_content,
                prompted, keyRead, exitStatus, lastError>>

----------------------------------------------------------------------------
(* Constants of run.py *)

MAX_FIX_ATTEMPTS == 3

HYPOTHESIS == "HYPOTHESIS.md"
METHODOLOGY == "METHODOLOGY.md"
EXPERIMENT_PROTOCOL == "EXPERIMENT_PROTOCOL.md"
EXPERIMENT_RESULTS == "EXPERIMENT_RESULTS.md"
ANALYSIS_REPORT == "ANALYSIS_REPORT.md"
RESEARCH_REPORT == "RESEARCH_REPORT.md"
DISSEMINATION_PLAN == "DISSEMINATION_PLAN.md"

Artifacts ==
    {HYPOTHESIS, METHODOLOGY, EXPERIMENT_PROTOCOL, EXPERIMENT_RESULTS,
     ANALYSIS_REPORT, RESEARCH_REPORT, DISSEMINATION_PLAN}

\* The six Crew objects, by the variable that holds them in run.py.
Crews ==
    {"research_design_crew", "experiment_design_crew",
     "experiment_execution_crew", "data_analysis_crew",
     "reporting_crew", "dissemination_crew"}

\* output_file of the tasks of each crew.
OutputFiles(crew) ==
    CASE crew = "research_design_crew" -> {HYPOTHESIS, METHODOLOGY}
      [] crew = "experiment_design_crew" -> {EXPERIMENT_PROTOCOL}
      [] crew = "experiment_execution_crew" -> {EXPERIMENT_RESULTS}
      [] crew = "data_analysis_crew" -> {ANALYSIS_REPORT}
      [] crew = "reporting_crew" -> {RESEARCH_REPORT}
      [] crew = "dissemination_crew" -> {DISSEMINATION_PLAN}

----------------------------------------------------------------------------
(* Files and their text *)

Absent == "<no such file>"

\* Text a file can hold from an earlier run, and text a crew writes now.
PriorText(a) == "prior " \o a
RunText(a) == "this run " \o a

\* What an earlier run can have left in the output directories.
InitialDisks ==
    { [a \in Artifacts |->
         CASE c[a] = "absent" -> Absent
           [] c[a] = "empty" -> ""
           [] c[a] = "prior" -> PriorText(a)] :
      c \in [Artifacts -> {"absent", "empty", "prior"}] }

\* os.path.exists(path)
Exists(d, a) == d[a] # Absent

\* A read that opens the hypothesis file whatever file is asked for.
ReadOrDefault_hypothesis(d, a) == IF Exists(d, HYPOTHESIS) THEN d[HYPOTHESIS] ELSE ""

\* open(path).read() guarded by os.path.exists, with the "" default
ReadOrDefault(d, a) == IF Exists(d, a) THEN d[a] ELSE ""

----------------------------------------------------------------------------
(* Logging *)

stdout_handler == [kind |-> "StreamHandler", file |-> "stdout", mode |-> "w"]

FileHandler(name, mode) == [kind |-> "FileHandler", file |-> name, mode |-> mode]

IsNotFileHandler(h) == h.kind # "FileHandler"

\* run.py:112-114  the handlers left after every FileHandler was removed
RemoveFileHandlers(hs) == SelectSeq(hs, IsNotFileHandler)

\* run.py:115  the streams left open after every FileHandler of hs was closed
CloseRemoved(open, hs) ==
    LET StaysOpen(h) == \A i \in DOMAIN hs : hs[i] # h \/ IsNotFileHandler(hs[i])
    IN SelectSeq(open, StaysOpen)

\* A setup_logger that adds the new handler without removing the old ones.
setup_logger_keepsOld(hs, log_file_name, append) ==
    Append(hs, FileHandler(log_file_name, IF append THEN "a" ELSE "w"))

\* setup_logger(log_file_name, append): the handlers after the call, given
\* that LOGS_DIR exists.
setup_logger(hs, log_file_name, append) ==
    Append(SelectSeq(hs, IsNotFileHandler),
           FileHandler(log_file_name, IF append THEN "a" ELSE "w"))

\* The uncaught exception of logging.FileHandler when LOGS_DIR is missing
LogsDirError == "Traceback: FileNotFoundError"

\* A call of setup_logger(log_file_name, append): the old FileHandlers are
\* removed and closed; then the new log file is opened in LOGS_DIR and its
\* handler added, or FileHandler raises because LOGS_DIR does not exist.
SetupLogger(log_file_name, append) ==
    /\ loggerCalls' = Append(loggerCalls, [file |-> log_file_name, append |-> append])
    /\ IF logsDir
       THEN LET hs == setup_logger(handlers, log_file_name, append) IN
            /\ handlers' = hs
            /\ openLogs' = Append(CloseRemoved(openLogs, handlers), hs[Len(hs)])
       ELSE /\ handlers' = RemoveFileHandlers(handlers)
            /\ openLogs' = CloseRemoved(openLogs, handlers)

----------------------------------------------------------------------------
(* Prompt construction *)

NoFormat == "<not formatted>"

\* A context that files the results text under the protocol key.
render_crew_definitions_misfiled(m, p, r) ==
    [methodology_content |-> m,
     experiment_protocol_content |-> r,
     experiment_results_content |-> p]

\* render_crew_definitions: the template context besides project_config.
render_crew_definitions(m, p, r) ==
    [methodology_content |-> m,
     experiment_protocol_content |-> p,
     experiment_results_content |-> r]

\* What a crew's task description is built from: the rendered context and
\* the keyword argument of description.format(...), if any.
Prompt(ctx, fmt) == [context |-> ctx, format |-> fmt]

NotKickedOff == Prompt(render_crew_definitions("", "", ""), "<never built>")

----------------------------------------------------------------------------
(* Decisions of the driver, one per condition of run.py *)

Running == -1

\* The messages logged before sys.exit
DesignDocsError == "Research design documents were not created properly. Exiting."
ProtocolError == "Experiment protocol was not created. Exiting."
ResultsError == "Experiment results were not created. Exiting."
EmptyResultsError == "Experiment results content is empty. Exiting."
NotApproved == "Research design not approved. Exiting."

NoKey == "<no key read>"
ENTER == "\r"
\* Keys a raw-mode read(1) can return: ENTER, line feed, a letter, Ctrl+C as
\* a character, and "" at end of input.
Keys == {ENTER, "\n", "q", "^C", ""}

\* A driver that also plans whenever --yes is given.
RunDesign_unlessYes(a) == ~a.skip_planning \/ a.yes

\* run.py:353  if not args.skip_planning
RunDesign(a) == ~a.skip_planning

\* A check with "and" in place of "or".
DesignDocsMissing_both(d) == ~Exists(d, HYPOTHESIS) /\ ~Exists(d, METHODOLOGY)

\* run.py:360  if not exists(hypothesis_path) or not exists(methodology_path)
DesignDocsMissing(d) == ~Exists(d, HYPOTHESIS) \/ ~Exists(d, METHODOLOGY)

\* run.py:368  if args.yes
AutoApprove(a) == a.yes

\* A checkpoint that takes a line feed for ENTER as well.
Approved_anyNewline(ch) == ch \in {"\r", "\n"}

\* run.py:379  if ch != "\r": exit
Approved(ch) == ch = ENTER

\* A main without the emptiness check.
ResultsEmpty_unchecked(c) == FALSE

\* run.py:601  if not experiment_results_content
ResultsEmpty(c) == c = ""

\* A main that calls the phase 3 handler before the phase 2 handler.
AfterPhase_swapped(p) ==
    CASE p = 1 -> "phase3"
      [] p = 3 -> "phase2"
      [] p = 2 -> "main_check_results"
      [] p = 4 -> "main_complete"

\* main: where control goes when a phase handler returns.
AfterPhase(p) ==
    CASE p = 1 -> "phase2"
      [] p = 2 -> "phase3"
      [] p = 3 -> "main_check_results"
      [] p = 4 -> "main_complete"

\* A driver that runs the failed phase again, up to MAX_FIX_ATTEMPTS times.
OnMissing_retry(retryPc) ==
    IF \A c \in Crews : kickoffs[c] < MAX_FIX_ATTEMPTS THEN retryPc ELSE "exited"

\* What follows a failed artifact check: sys.exit, no second attempt.
OnMissing(retryPc) == "exited"

----------------------------------------------------------------------------
(* Building blocks of the actions *)

\* sys.exit(status), or an uncaught exception (status 1)
Exit(status, why) ==
    /\ pc' = "exited"
    /\ exitStatus' = status
    /\ lastError' = why
    /\ running' = {}

\* logger.error(why); sys.exit(1) after an artifact check failed
FailFast(why, retryPc) ==
    LET next == OnMissing(retryPc) IN
    /\ pc' = next
    /\ exitStatus' = IF next = "exited" THEN 1 ELSE exitStatus
    /\ lastError' = why

\* crew.kickoff() is entered with task prompts built from prompt
Kickoff(crew, prompt, nextPc) ==
    /\ running' = running \cup {crew}
    /\ kickoffs' = [kickoffs EXCEPT ![crew] = @ + 1]
    /\ received' = [received EXCEPT ![crew] = prompt]
    /\ pc' = nextPc

\* What a crew may do to each of its output files: leave it as it is,
\* write an empty file, or write its text.
Keep == "<keep>"
Effects(crew) == [OutputFiles(crew) -> {Keep, "empty", "text"}]

DiskAfter(d, e) ==
    [a \in Artifacts |->
        IF a \in DOMAIN e /\ e[a] # Keep
        THEN (IF e[a] = "empty" THEN "" ELSE RunText(a))
        ELSE d[a]]

WrittenBy(e) == {a \in DOMAIN e : e[a] # Keep}

\* crew.kickoff() returns after the crew did e to its output files, or raises.
KickoffReturns(crew, okPc) ==
    /\ crew \in running
    /\ \/ \E e \in Effects(crew) :
            /\ disk' = DiskAfter(disk, e)
            /\ written' = written \cup WrittenBy(e)
            /\ running' = running \ {crew}
            /\ pc' = okPc
            /\ UNCHANGED <<exitStatus, lastError>>
       \/ \E e \in Effects(crew) :
            /\ disk' = DiskAfter(disk, e)
            /\ written' = written \cup WrittenBy(e)
            /\ Exit(1, "Traceback: crew.kickoff() raised")

----------------------------------------------------------------------------
(* One run of run.py *)

Init ==
    /\ pc = "import"
    /\ args \in [yes : BOOLEAN, skip_planning : BOOLEAN]
    /\ disk \in InitialDisks
    /\ written = {}
    /\ logsDir \in BOOLEAN
    /\ handlers = <<stdout_handler>>
    /\ openLogs = <<>>
    /\ loggerCalls = <<>>
    /\ running = {}
    /\ kickoffs = [c \in Crews |-> 0]
    /\ received = [c \in Crews |-> NotKickedOff]
    /\ phaseLog = <<>>
    /\ returned = {}
    /\ methodology_content = ""
    /\ experiment_protocol_content = ""
    /\ experiment_results_content = ""
    /\ prompted = FALSE
    /\ keyRead = NoKey
    /\ exitStatus = Running
    /\ lastError = ""
    /\ tool = "unused"

\* run.py:103-184, module level: the initial setup_logger("run.log") opens
\* the log file in LOGS_DIR, then the LLM client is built.
ModuleImport ==
    /\ pc = "import"
    /\ SetupLogger("run.log", FALSE)
    /\ \/ /\ ~logsDir
          /\ Exit(1, LogsDirError)
       \/ /\ logsDir
          /\ \/ /\ pc' = "main"
                /\ UNCHANGED <<exitStatus, lastError, running>>
             \/ Exit(1, "ERROR: Failed to initialize ChatOpenAI client")
    /\ UNCHANGED <<args, disk, written, logsDir, kickoffs, received, phaseLog,
                   returned, methodology_content, experiment_protocol_content,
                   experiment_results_content, prompted, keyRead, tool>>

\* run.py:587-590  parse_arguments, load_project_config,
\* setup_project_environment (create_project_directories)
MainSetup ==
    /\ pc = "main"
    /\ \/ /\ pc' = "phase1"
          /\ logsDir' = TRUE
          /\ UNCHANGED <<exitStatus, lastError, running>>
       \/ /\ Exit(1, "Traceback: load_project_config raised")
          /\ UNCHANGED logsDir
    /\ UNCHANGED <<args, disk, written, handlers, openLogs, loggerCalls, kickoffs, received, phaseLog,
                   returned, methodology_content, experiment_protocol_content,
                   experiment_results_content, prompted, keyRead, tool>>

\* run.py:349-355 and 271-317: phase 1 starts; unless planning is skipped
\* the research design crew is built and kicked off.
Phase1Start ==
    /\ pc = "phase1"
    /\ phaseLog' = Append(phaseLog, 1)
    /\ IF RunDesign(args)
       THEN Kickoff("research_design_crew",
                    Prompt(render_crew_definitions("", "", ""), NoFormat),
                    "design_kickoff")
       ELSE /\ pc' = "p1_read"
            /\ UNCHANGED <<running, kickoffs, received>>
    /\ UNCHANGED <<args, disk, written, logsDir, handlers, openLogs, loggerCalls, returned,
                   methodology_content, experiment_protocol_content,
                   experiment_results_content, prompted, keyRead, exitStatus,
                   lastError, tool>>

\* run.py:317-318  research_design_crew.kickoff() returns
DesignKickoffReturns ==
    /\ pc = "design_kickoff"
    /\ KickoffReturns("research_design_crew", "p1_check")
    /\ UNCHANGED <<args, logsDir, handlers, openLogs, loggerCalls, kickoffs, received, phaseLog,
                   returned, methodology_content, experiment_protocol_content,
                   experiment_results_content, prompted, keyRead, tool>>

\* run.py:357-373  the design documents are checked; then the design is
\* auto-approved or the approval prompt is printed.
Phase1Check ==
    /\ pc = "p1_check"
    /\ IF DesignDocsMissing(disk)
       THEN /\ FailFast(DesignDocsError, "phase1")
            /\ UNCHANGED prompted
       ELSE /\ IF AutoApprove(args)
               THEN pc' = "p1_read" /\ UNCHANGED prompted
               ELSE pc' = "p1_prompt" /\ prompted' = TRUE
            /\ UNCHANGED <<exitStatus, lastError>>
    /\ UNCHANGED <<args, disk, written, logsDir, handlers, openLogs, loggerCalls, running, kickoffs,
                   received, phaseLog, returned, methodology_content,
                   experiment_protocol_content, experiment_results_content,
                   keyRead, tool>>

\* run.py:374-383  one key is read in raw mode; anything but ENTER ends the
\* run with status 0. termios.tcgetattr raises when stdin is no terminal.
ApprovalCheckpoint ==
    /\ pc = "p1_prompt"
    /\ \/ \E ch \in Keys :
            /\ keyRead' = ch
            /\ IF Approved(ch)
               THEN /\ pc' = "p1_read"
                    /\ UNCHANGED <<exitStatus, lastError, running>>
               ELSE Exit(0, NotApproved)
       \/ /\ Exit(1, "Traceback: termios.error")
          /\ UNCHANGED keyRead
    /\ UNCHANGED <<args, disk, written, logsDir, handlers, openLogs, loggerCalls, kickoffs, received,
                   phaseLog, returned, methodology_content,
                   experiment_protocol_content, experiment_results_content,
                   prompted, tool>>

\* run.py:387-397 and 592: the design documents that exist are read and the
\* handler returns; main keeps the methodology text.
Phase1Return ==
    /\ pc = "p1_read"
    /\ methodology_content' = ReadOrDefault(disk, METHODOLOGY)
    /\ returned' = returned \cup {1}
    /\ pc' = AfterPhase(1)
    /\ UNCHANGED <<args, disk, written, logsDir, handlers, openLogs, loggerCalls, running, kickoffs,
                   received, phaseLog, experiment_protocol_content,
                   experiment_results_content, prompted, keyRead, exitStatus,
                   lastError, tool>>

\* run.py:401-435  phase 2 starts: the log is switched and the experiment
\* design crew is kicked off on the methodology text.
Phase2Start ==
    /\ pc = "phase2"
    /\ phaseLog' = Append(phaseLog, 2)
    /\ SetupLogger("experimentation.log", FALSE)
    /\ Kickoff("experiment_design_crew",
               Prompt(render_crew_definitions(methodology_content, "", ""),
                      methodology_content),
               "protocol_kickoff")
    /\ UNCHANGED <<args, disk, written, logsDir, returned, methodology_content,
                   experiment_protocol_content, experiment_results_content,
                   prompted, keyRead, exitStatus, lastError, tool>>

\* run.py:435  experiment_design_crew.kickoff() returns
ProtocolKickoffReturns ==
    /\ pc = "protocol_kickoff"
    /\ KickoffReturns("experiment_design_crew", "p2_check")
    /\ UNCHANGED <<args, logsDir, handlers, openLogs, loggerCalls, kickoffs, received, phaseLog,
                   returned, methodology_content, experiment_protocol_content,
                   experiment_results_content, prompted, keyRead, tool>>

\* run.py:437-447 and 593: the protocol is read, or the run ends; the log
\* is switched back and the handler returns.
Phase2Check ==
    /\ pc = "p2_check"
    /\ IF Exists(disk, EXPERIMENT_PROTOCOL)
       THEN /\ experiment_protocol_content' = disk[EXPERIMENT_PROTOCOL]
            /\ SetupLogger("run.log", TRUE)
            /\ returned' = returned \cup {2}
            /\ pc' = AfterPhase(2)
            /\ UNCHANGED <<exitStatus, lastError>>
       ELSE /\ FailFast(ProtocolError, "phase2")
            /\ UNCHANGED <<experiment_protocol_content, handlers, openLogs, loggerCalls, returned>>
    /\ UNCHANGED <<args, disk, written, logsDir, running, kickoffs, received,
                   phaseLog, methodology_content, experiment_results_content,
                   prompted, keyRead, tool>>

\* run.py:453-485  phase 3 starts: the experiment execution crew is kicked
\* off on the protocol text.
Phase3Start ==
    /\ pc = "phase3"
    /\ phaseLog' = Append(phaseLog, 3)
    /\ SetupLogger("execution_analysis.log", FALSE)
    /\ Kickoff("experiment_execution_crew",
               Prompt(render_crew_definitions("", experiment_protocol_content, ""),
                      experiment_protocol_content),
               "experiment_kickoff")
    /\ UNCHANGED <<args, disk, written, logsDir, returned, methodology_content,
                   experiment_protocol_content, experiment_results_content,
                   prompted, keyRead, exitStatus, lastError, tool>>

\* run.py:485  experiment_execution_crew.kickoff() returns
ExperimentKickoffReturns ==
    /\ pc = "experiment_kickoff"
    /\ KickoffReturns("experiment_execution_crew", "p3_check")
    /\ UNCHANGED <<args, logsDir, handlers, openLogs, loggerCalls, kickoffs, received, phaseLog,
                   returned, methodology_content, experiment_protocol_content,
                   experiment_results_content, prompted, keyRead, tool>>

\* run.py:487-516  the results are read, or the run ends; the data analysis
\* crew is kicked off on the results text. The crew definitions are still
\* those rendered at run.py:457, with the protocol only.
Phase3Check ==
    /\ pc = "p3_check"
    /\ IF Exists(disk, EXPERIMENT_RESULTS)
       THEN /\ experiment_results_content' = disk[EXPERIMENT_RESULTS]
            /\ Kickoff("data_analysis_crew",
                       Prompt(render_crew_definitions("", experiment_protocol_content, ""),
                              disk[EXPERIMENT_RESULTS]),
                       "analysis_kickoff")
            /\ UNCHANGED <<exitStatus, lastError>>
       ELSE /\ FailFast(ResultsError, "phase3")
            /\ UNCHANGED <<experiment_results_content, running, kickoffs, received>>
    /\ UNCHANGED <<args, disk, written, logsDir, handlers, openLogs, loggerCalls, phaseLog, returned,
                   methodology_content, experiment_protocol_content, prompted,
                   keyRead, tool>>

\* run.py:516  data_analysis_crew.kickoff() returns
AnalysisKickoffReturns ==
    /\ pc = "analysis_kickoff"
    /\ KickoffReturns("data_analysis_crew", "p3_return")
    /\ UNCHANGED <<args, logsDir, handlers, openLogs, loggerCalls, kickoffs, received, phaseLog,
                   returned, methodology_content, experiment_protocol_content,
                   experiment_results_content, prompted, keyRead, tool>>

\* run.py:518-520 and 597: the log is switched back and the handler returns
\* the results text; the analysis report is not looked at.
Phase3Return ==
    /\ pc = "p3_return"
    /\ SetupLogger("run.log", TRUE)
    /\ returned' = returned \cup {3}
    /\ pc' = AfterPhase(3)
    /\ UNCHANGED <<args, disk, written, logsDir, running, kickoffs, received,
                   phaseLog, methodology_content, experiment_protocol_content,
                   experiment_results_content, prompted, keyRead, exitStatus,
                   lastError, tool>>

\* run.py:601-603  main refuses empty results
MainCheckResults ==
    /\ pc = "main_check_results"
    /\ IF ResultsEmpty(experiment_results_content)
       THEN Exit(1, EmptyResultsError)
       ELSE /\ pc' = "phase4"
            /\ UNCHANGED <<exitStatus, lastError, running>>
    /\ UNCHANGED <<args, disk, written, logsDir, handlers, openLogs, loggerCalls, kickoffs, received,
                   phaseLog, returned, methodology_content,
                   experiment_protocol_content, experiment_results_content,
                   prompted, keyRead, tool>>

\* run.py:526-555  phase 4 starts: the reporting crew is kicked off with
\* crew definitions rendered from the results text.
Phase4Start ==
    /\ pc = "phase4"
    /\ phaseLog' = Append(phaseLog, 4)
    /\ SetupLogger("reporting_dissemination.log", FALSE)
    /\ Kickoff("reporting_crew",
               Prompt(render_crew_definitions("", "", experiment_results_content),
                      NoFormat),
               "report_kickoff")
    /\ UNCHANGED <<args, disk, written, logsDir, returned, methodology_content,
                   experiment_protocol_content, experiment_results_content,
                   prompted, keyRead, exitStatus, lastError, tool>>

\* run.py:555  reporting_crew.kickoff() returns
ReportKickoffReturns ==
    /\ pc = "report_kickoff"
    /\ KickoffReturns("reporting_crew", "p4_dissemination")
    /\ UNCHANGED <<args, logsDir, handlers, openLogs, loggerCalls, kickoffs, received, phaseLog,
                   returned, methodology_content, experiment_protocol_content,
                   experiment_results_content, prompted, keyRead, tool>>

\* run.py:557-578  the dissemination crew is kicked off, from the crew
\* definitions rendered at run.py:529; the research report is not looked at.
DisseminationStart ==
    /\ pc = "p4_dissemination"
    /\ Kickoff("dissemination_crew",
               Prompt(render_crew_definitions("", "", experiment_results_content),
                      NoFormat),
               "dissemination_kickoff")
    /\ UNCHANGED <<args, disk, written, logsDir, handlers, openLogs, loggerCalls, phaseLog, returned,
                   methodology_content, experiment_protocol_content,
                   experiment_results_content, prompted, keyRead, exitStatus,
                   lastError, tool>>

\* run.py:578  dissemination_crew.kickoff() returns
DisseminationKickoffReturns ==
    /\ pc = "dissemination_kickoff"
    /\ KickoffReturns("dissemination_crew", "p4_return")
    /\ UNCHANGED <<args, logsDir, handlers, openLogs, loggerCalls, kickoffs, received, phaseLog,
                   returned, methodology_content, experiment_protocol_content,
                   experiment_results_content, prompted, keyRead, tool>>

\* run.py:580-582 and 605: the log is switched back and the handler returns
Phase4Return ==
    /\ pc = "p4_return"
    /\ SetupLogger("run.log", TRUE)
    /\ returned' = returned \cup {4}
    /\ pc' = AfterPhase(4)
    /\ UNCHANGED <<args, disk, written, logsDir, running, kickoffs, received,
                   phaseLog, methodology_content, experiment_protocol_content,
                   experiment_results_content, prompted, keyRead, exitStatus,
                   lastError, tool>>

\* run.py:607  "--- Workflow complete. ---"; the process ends with status 0
MainComplete ==
    /\ pc = "main_complete"
    /\ pc' = "complete"
    /\ exitStatus' = 0
    /\ UNCHANGED <<args, disk, written, logsDir, handlers, openLogs, loggerCalls, running, kickoffs,
                   received, phaseLog, returned, methodology_content,
                   experiment_protocol_content, experiment_results_content,
                   prompted, keyRead, lastError, tool>>

Next ==
    \/ ModuleImport
    \/ MainSetup
    \/ Phase1Start
    \/ DesignKickoffReturns
    \/ Phase1Check
    \/ ApprovalCheckpoint
    \/ Phase1Return
    \/ Phase2Start
    \/ ProtocolKickoffReturns
    \/ Phase2Check
    \/ Phase3Start
    \/ ExperimentKickoffReturns
    \/ Phase3Check
    \/ AnalysisKickoffReturns
    \/ Phase3Return
    \/ MainCheckResults
    \/ Phase4Start
    \/ ReportKickoffReturns
    \/ DisseminationStart
    \/ DisseminationKickoffReturns
    \/ Phase4Return
    \/ MainComplete

Spec == Init /\ [][Next]_vars

TypeOK ==
    /\ args \in [yes : BOOLEAN, skip_planning : BOOLEAN]
    /\ \A a \in Artifacts : disk[a] \in {Absent, "", PriorText(a), RunText(a)}
    /\ written \subseteq Artifacts
    /\ running \subseteq Crews
    /\ \A c \in Crews : kickoffs[c] \in Nat
    /\ exitStatus \in {Running, 0, 1}
    /\ keyRead \in Keys \cup {NoKey}

----------------------------------------------------------------------------
(* SearXNGSearchTool._run (src/tools/search_tools.py) *)

MaxResults == 2

None == "<None>"

BaseUrls == {"", "http://searxng:8080"}
Queries == {"tla+"}

\* One entry of the "results" array: a JSON object with optional title,
\* url and content (None when the key is missing or null), or a JSON value
\* that is not an object.
ResultItems ==
    [isObject : {TRUE}, title : {None, "", "A", "B"}, url : {None, "", "u"},
     content : {None, "c"}]
    \cup {[isObject |-> FALSE, title |-> None, url |-> None, content |-> None]}

ResultLists == UNION { [1..n -> ResultItems] : n \in 0..MaxResults }

\* Response bodies: text that is not JSON, JSON that is not an object, and
\* JSON objects whose "results" is missing, null, a number, a string or an
\* array.
Bodies ==
    {[json |-> k, results |-> "none", items |-> <<>>] : k \in {"invalid", "array", "null"}}
    \cup {[json |-> "object", results |-> k, items |-> <<>>] :
            k \in {"missing", "null", "number", "empty string", "string"}}
    \cup {[json |-> "object", results |-> "array", items |-> l] : l \in ResultLists}

Responses == [status : {200, 404, 503}, body : Bodies]

NoResponse == [status |-> 0, body |-> [json |-> "invalid", results |-> "none", items |-> <<>>]]

\* Exception classes under requests.exceptions.RequestException
RequestExceptions ==
    {"ConnectionError", "Timeout", "HTTPError", "requests.JSONDecodeError"}

\* Other subclasses of Exception the body of the try block can raise
OtherExceptions == {"json.JSONDecodeError", "AttributeError", "TypeError"}

ConnectPrefix == "An error occurred while connecting to SearXNG: "
UnexpectedPrefix == "An unexpected error occurred: "
NoResults == "No relevant search results found."

\* A try block without the final "except Exception" clause.
ExceptClause_requestsOnly(e) ==
    IF e \in RequestExceptions THEN "RequestException" ELSE "uncaught"

\* search_tools.py:58-61  the except clause that handles e
ExceptClause(e) ==
    IF e \in RequestExceptions THEN "RequestException"
    ELSE IF e \in OtherExceptions THEN "Exception"
    ELSE "uncaught"

\* A test for None only, which lets empty strings through.
Truthy_notNone(v) == v # None

\* Python truth value of a title or url
Truthy(v) == v # None /\ v # ""

\* str(v) inside an f-string
Str(v) == IF v = None THEN "None" ELSE v

\* search_tools.py:51
FormatResult(r) ==
    "Title: " \o Str(r.title) \o "\nURL: " \o Str(r.url)
        \o "\nContent: " \o Str(r.content) \o "\n---"

\* search_tools.py:46-51  the loop over the results
RECURSIVE FormattedResults(_)
FormattedResults(items) ==
    IF items = <<>> THEN <<>>
    ELSE LET r == Head(items)
             rest == FormattedResults(Tail(items))
         IN IF Truthy(r.title) /\ Truthy(r.url)
            THEN <<FormatResult(r)>> \o rest
            ELSE rest

\* "\n".join(lines)
RECURSIVE Join(_)
Join(lines) ==
    IF lines = <<>> THEN ""
    ELSE IF Len(lines) = 1 THEN lines[1]
    ELSE lines[1] \o "\n" \o Join(Tail(lines))

\* search_tools.py:42  response.json(): the exception it raises, or "none".
\* Which class a decode error has depends on the installed requests.
JsonErrors(body) ==
    IF body.json = "invalid"
    THEN {"requests.JSONDecodeError", "json.JSONDecodeError"}
    ELSE {"none"}

\* search_tools.py:46-50  the exception raised while walking the parsed
\* body, or "none": .get on a value that is no dict, iteration over a value
\* that is not iterable.
WalkError(body) ==
    CASE body.json # "object" -> "AttributeError"
      [] body.results \in {"null", "number"} -> "TypeError"
      [] body.results = "string" -> "AttributeError"
      [] body.results = "array"
            /\ \E i \in DOMAIN body.items : ~body.items[i].isObject -> "AttributeError"
      [] OTHER -> "none"

\* search_tools.py:45-56  the string returned for a body that was walked
\* without an exception
ResultString(body) ==
    LET formatted_results ==
            IF body.results = "array" THEN FormattedResults(body.items) ELSE <<>>
    IN IF formatted_results = <<>> THEN NoResults ELSE Join(formatted_results)

\* The call ends by raising e out of _run, or by returning the message of
\* the except clause that handles e.
Raise(t, e) ==
    LET clause == ExceptClause(e) IN
    CASE clause = "RequestException" ->
            [t EXCEPT !.pc = "done", !.failure = e, !.outcome = "returned",
                      !.value = ConnectPrefix \o e]
      [] clause = "Exception" ->
            [t EXCEPT !.pc = "done", !.failure = e, !.outcome = "returned",
                      !.value = UnexpectedPrefix \o e]
      [] OTHER ->
            [t EXCEPT !.pc = "done", !.failure = e, !.outcome = "raised",
                      !.value = e]

InitTool ==
    /\ tool \in [pc : {"idle"}, searxng_base_url : BaseUrls, query : {""},
                 requests : {0}, response : {NoResponse}, failure : {"none"},
                 outcome : {"none"}, value : {""}]
    /\ pc = "import"
    /\ args = [yes |-> FALSE, skip_planning |-> FALSE]
    /\ disk = [a \in Artifacts |-> Absent]
    /\ written = {}
    /\ logsDir = FALSE
    /\ handlers = <<stdout_handler>>
    /\ openLogs = <<>>
    /\ loggerCalls = <<>>
    /\ running = {}
    /\ kickoffs = [c \in Crews |-> 0]
    /\ received = [c \in Crews |-> NotKickedOff]
    /\ phaseLog = <<>>
    /\ returned = {}
    /\ methodology_content = ""
    /\ experiment_protocol_content = ""
    /\ experiment_results_content = ""
    /\ prompted = FALSE
    /\ keyRead = NoKey
    /\ exitStatus = Running
    /\ lastError = ""

\* _run(query) is called
RunCalled ==
    /\ tool.pc = "idle"
    /\ \E q \in Queries : tool' = [tool EXCEPT !.pc = "check_url", !.query = q]
    /\ UNCHANGED driverVars

\* search_tools.py:27-38  the base URL is checked, before the try block
CheckBaseUrl ==
    /\ tool.pc = "check_url"
    /\ IF tool.searxng_base_url = ""
       THEN tool' = [tool EXCEPT !.pc = "done", !.failure = "ValueError",
                                 !.outcome = "raised", !.value = "ValueError"]
       ELSE tool' = [tool EXCEPT !.pc = "get"]
    /\ UNCHANGED driverVars

\* search_tools.py:40  requests.get: the request is sent; it fails to
\* connect, times out, or a response arrives
HttpGet ==
    /\ tool.pc = "get"
    /\ \/ \E e \in {"ConnectionError", "Timeout"} :
            tool' = Raise([tool EXCEPT !.requests = @ + 1], e)
       \/ \E r \in Responses :
            tool' = [tool EXCEPT !.requests = @ + 1, !.response = r,
                                 !.pc = "raise_for_status"]
    /\ UNCHANGED driverVars

\* search_tools.py:41  response.raise_for_status()
RaiseForStatus ==
    /\ tool.pc = "raise_for_status"
    /\ IF tool.response.status >= 400
       THEN tool' = Raise(tool, "HTTPError")
       ELSE tool' = [tool EXCEPT !.pc = "json"]
    /\ UNCHANGED driverVars

\* search_tools.py:42  search_results = response.json()
ParseJson ==
    /\ tool.pc = "json"
    /\ \E e \in JsonErrors(tool.response.body) :
          IF e = "none"
          THEN tool' = [tool EXCEPT !.pc = "format"]
          ELSE tool' = Raise(tool, e)
    /\ UNCHANGED driverVars

\* search_tools.py:45-56  the results are formatted and returned
FormatAndReturn ==
    /\ tool.pc = "format"
    /\ LET e == WalkError(tool.response.body) IN
          IF e = "none"
          THEN tool' = [tool EXCEPT !.pc = "done", !.outcome = "returned",
                                    !.value = ResultString(tool.response.body)]
          ELSE tool' = Raise(tool, e)
    /\ UNCHANGED driverVars

NextTool ==
    \/ RunCalled
    \/ CheckBaseUrl
    \/ HttpGet
    \/ RaiseForStatus
    \/ ParseJson
    \/ FormatAndReturn

SpecTool == InitTool /\ [][NextTool]_vars

----------------------------------------------------------------------------
(* Sequences of setup_logger calls on the root logger of run.py *)

MaxLoggerCalls == 3

\* The log files run.py passes to setup_logger
LogFileNames ==
    {"run.log", "experimentation.log", "execution_analysis.log",
     "reporting_dissemination.log"}

InitLogger ==
    /\ handlers = <<stdout_handler>>
    /\ openLogs = <<>>
    /\ loggerCalls = <<>>
    /\ logsDir \in BOOLEAN
    /\ pc = "import"
    /\ args = [yes |-> FALSE, skip_planning |-> FALSE]
    /\ disk = [a \in Artifacts |-> Absent]
    /\ written = {}
    /\ running = {}
    /\ kickoffs = [c \in Crews |-> 0]
    /\ received = [c \in Crews |-> NotKickedOff]
    /\ phaseLog = <<>>
    /\ returned = {}
    /\ methodology_content = ""
    /\ experiment_protocol_content = ""
    /\ experiment_results_content = ""
    /\ prompted = FALSE
    /\ keyRead = NoKey
    /\ exitStatus = Running
    /\ lastError = ""
    /\ tool = "unused"

\* run.py:110-123  one call of setup_logger, with any file name and mode
LoggerCall ==
    /\ Len(loggerCalls) < MaxLoggerCalls
    /\ \E name \in LogFileNames, append \in BOOLEAN : SetupLogger(name, append)
    /\ UNCHANGED <<pc, args, disk, written, logsDir, running, kickoffs,
                   received, phaseLog, returned, methodology_content,
                   experiment_protocol_content, experiment_results_content,
                   prompted, keyRead, exitStatus, lastError, tool>>

\* run.py:267  os.makedirs(LOGS_DIR, exist_ok=True)
MakeLogsDir ==
    /\ ~logsDir
    /\ logsDir' = TRUE
    /\ UNCHANGED <<pc, args, disk, written, handlers, openLogs, loggerCalls,
                   running, kickoffs, received, phaseLog, returned,
                   methodology_content, experiment_protocol_content,
                   experiment_results_content, prompted, keyRead, exitStatus,
                   lastError, tool>>

NextLogger ==
    \/ LoggerCall
    \/ MakeLogsDir

SpecLogger == InitLogger /\ [][NextLogger]_vars

----------------------------------------------------------------------------
(* Vocabulary of the properties *)

Started(p) == \E i \in DOMAIN phaseLog : phaseLog[i] = p

CrewPhase(c) ==
    CASE c = "research_design_crew" -> 1
      [] c = "experiment_design_crew" -> 2
      [] c \in {"experiment_execution_crew", "data_analysis_crew"} -> 3
      [] c \in {"reporting_crew", "dissemination_crew"} -> 4

LaterCrews == {c \in Crews : CrewPhase(c) >= 2}

----------------------------------------------------------------------------
(* C1: the phases start in the order 1, 2, 3, 4; a phase starts only after *)
(* the handlers of all earlier phases have returned; at most one crew      *)
(* kickoff is in progress at any time, and it belongs to the phase started *)
(* last.                                                                   *)
C1_PhasesSequential ==
    /\ \A i \in DOMAIN phaseLog : phaseLog[i] = i
    /\ \A i \in DOMAIN phaseLog : \A q \in 1..(i - 1) : q \in returned
    /\ \A q \in returned : Started(q)
    /\ Cardinality(running) <= 1
    /\ \A c \in running : phaseLog # <<>> /\ phaseLog[Len(phaseLog)] = CrewPhase(c)

C1_Witness ==
    /\ phaseLog = <<1, 2, 3, 4>>
    /\ running = {"dissemination_crew"}
    /\ returned = {1, 2, 3}

(* C2: when the design phase runs without --yes, phase 2 starts only if    *)
(* the key read at the checkpoint is ENTER; after any other key the run    *)
(* has exited with status 0 and no crew of phase 2, 3 or 4 was kicked off. *)
C2_ApprovalGate ==
    (~args.skip_planning /\ ~args.yes) =>
        /\ Started(2) => keyRead = "\r"
        /\ (keyRead # NoKey /\ keyRead # "\r") =>
              /\ pc = "exited"
              /\ exitStatus = 0
              /\ phaseLog = <<1>>
              /\ \A c \in LaterCrews : kickoffs[c] = 0

C2_Witness ==
    /\ ~args.skip_planning /\ ~args.yes
    /\ keyRead = "\n"
    /\ exitStatus = 0

(* C3: when an artifact check finds its file missing (HYPOTHESIS.md or     *)
(* METHODOLOGY.md after the design crew, EXPERIMENT_PROTOCOL.md after the  *)
(* protocol crew, EXPERIMENT_RESULTS.md after the experiment crew), that   *)
(* step ends the run with status 1 without printing the approval prompt or *)
(* kicking off a crew, and nothing happens after the run has ended.        *)
C3_MissingArtifactExits ==
    [][ /\ pc # "exited"
        /\ ( \/ /\ pc = "p1_check"
                /\ (disk[HYPOTHESIS] = Absent \/ disk[METHODOLOGY] = Absent)
             \/ /\ pc = "p2_check"
                /\ disk[EXPERIMENT_PROTOCOL] = Absent
             \/ /\ pc = "p3_check"
                /\ disk[EXPERIMENT_RESULTS] = Absent )
           => /\ pc' = "exited"
              /\ exitStatus' = 1
              /\ prompted' = prompted
              /\ keyRead' = keyRead
              /\ kickoffs' = kickoffs
              /\ phaseLog' = phaseLog ]_vars

C3_Witness ==
    /\ pc = "exited"
    /\ exitStatus = 1
    /\ lastError = ProtocolError
    /\ disk[EXPERIMENT_PROTOCOL] = Absent
    /\ kickoffs["experiment_execution_crew"] = 0

(* C4: no step starts while the artifact it consumes is missing: the       *)
(* protocol crew is kicked off only if METHODOLOGY.md exists, the          *)
(* experiment crew only if EXPERIMENT_PROTOCOL.md exists, the analysis     *)
(* crew only if EXPERIMENT_RESULTS.md exists.                              *)
C4_NoStartOnMissingInput ==
    /\ kickoffs["experiment_design_crew"] > 0 => disk[METHODOLOGY] # Absent
    /\ kickoffs["experiment_execution_crew"] > 0 => disk[EXPERIMENT_PROTOCOL] # Absent
    /\ kickoffs["data_analysis_crew"] > 0 => disk[EXPERIMENT_RESULTS] # Absent

\* The text a step was handed: the keyword argument of description.format
\* for the tasks that are formatted, else the content value of the context
\* its crew definitions were rendered with.
StepInput(c) ==
    IF received[c].format # NoFormat
    THEN received[c].format
    ELSE received[c].context.experiment_results_content

FileText(a) == IF disk[a] = Absent THEN "" ELSE disk[a]

(* C5, as claimed: each step after the first is handed the text of the     *)
(* artifact of the step right before it, whenever that artifact exists:    *)
(* methodology, protocol, results, analysis report, research report.       *)
C5_Original ==
    /\ (kickoffs["experiment_design_crew"] > 0 /\ disk[METHODOLOGY] # Absent)
          => StepInput("experiment_design_crew") = disk[METHODOLOGY]
    /\ (kickoffs["experiment_execution_crew"] > 0 /\ disk[EXPERIMENT_PROTOCOL] # Absent)
          => StepInput("experiment_execution_crew") = disk[EXPERIMENT_PROTOCOL]
    /\ (kickoffs["data_analysis_crew"] > 0 /\ disk[EXPERIMENT_RESULTS] # Absent)
          => StepInput("data_analysis_crew") = disk[EXPERIMENT_RESULTS]
    /\ (kickoffs["reporting_crew"] > 0 /\ disk[ANALYSIS_REPORT] # Absent)
          => StepInput("reporting_crew") = disk[ANALYSIS_REPORT]
    /\ (kickoffs["dissemination_crew"] > 0 /\ disk[RESEARCH_REPORT] # Absent)
          => StepInput("dissemination_crew") = disk[RESEARCH_REPORT]

(* C5, amended: the protocol step is handed the text of METHODOLOGY.md     *)
(* (empty when the file is absent), the experiment step the text of        *)
(* EXPERIMENT_PROTOCOL.md, and the analysis, report and dissemination      *)
(* steps all three the text of EXPERIMENT_RESULTS.md; the report and       *)
(* dissemination steps get it through the rendered crew definitions only   *)
(* and it is never empty there.                                            *)
C5_Handoff ==
    /\ kickoffs["experiment_design_crew"] > 0
          => StepInput("experiment_design_crew") = FileText(METHODOLOGY)
    /\ kickoffs["experiment_execution_crew"] > 0
          => /\ disk[EXPERIMENT_PROTOCOL] # Absent
             /\ StepInput("experiment_execution_crew") = disk[EXPERIMENT_PROTOCOL]
    /\ kickoffs["data_analysis_crew"] > 0
          => /\ disk[EXPERIMENT_RESULTS] # Absent
             /\ StepInput("data_analysis_crew") = disk[EXPERIMENT_RESULTS]
    /\ \A c \in {"reporting_crew", "dissemination_crew"} :
          kickoffs[c] > 0
          => /\ received[c].format = NoFormat
             /\ received[c].context.experiment_results_content = disk[EXPERIMENT_RESULTS]
             /\ disk[EXPERIMENT_RESULTS] \notin {Absent, ""}

C5_Witness ==
    /\ kickoffs["dissemination_crew"] = 1
    /\ disk[ANALYSIS_REPORT] = RunText(ANALYSIS_REPORT)
    /\ disk[RESEARCH_REPORT] = RunText(RESEARCH_REPORT)
    /\ StepInput("dissemination_crew") = RunText(EXPERIMENT_RESULTS)

(* C6: when the run has logged "Workflow complete", all seven artifacts    *)
(* exist on disk.                                                          *)
C6_AllArtifactsAtCompletion ==
    pc = "complete" => \A a \in Artifacts : disk[a] # Absent

(* C7: every crew is kicked off at most once in a run, and once a step has *)
(* failed or the run has ended no crew is kicked off any more.             *)
C7_RetryFree ==
    [][ /\ \A c \in Crews : kickoffs'[c] <= 1
        /\ (lastError # "" \/ exitStatus # Running) => kickoffs' = kickoffs ]_vars

C7_Witness ==
    /\ pc = "exited"
    /\ lastError = ResultsError
    /\ kickoffs["experiment_execution_crew"] = 1
    /\ kickoffs["data_analysis_crew"] = 0

(* C8: phase 4 never starts with empty experiment results: when the text   *)
(* read from EXPERIMENT_RESULTS.md is empty, main ends the run with status *)
(* 1 and neither the reporting nor the dissemination crew is kicked off.   *)
C8_EmptyResultsExit ==
    [][ /\ (pc = "main_check_results" /\ experiment_results_content = "")
           => (pc' = "exited" /\ exitStatus' = 1)
        /\ (Started(4)' \/ kickoffs'["reporting_crew"] > 0
                        \/ kickoffs'["dissemination_crew"] > 0)
           => experiment_results_content' # "" ]_vars

C8_Witness ==
    /\ pc = "exited"
    /\ exitStatus = 1
    /\ lastError = EmptyResultsError
    /\ disk[EXPERIMENT_RESULTS] = ""
    /\ kickoffs["data_analysis_crew"] = 1
    /\ kickoffs["reporting_crew"] = 0

(* C9: with --skip-planning the design crew is never kicked off, the       *)
(* prompt is never printed, no key is read and the design document check   *)
(* never ends the run, with or without --yes. With --yes and without       *)
(* --skip-planning the design crew is kicked off when phase 1 starts, no   *)
(* prompt is printed and no key is read, and once the design documents     *)
(* are found the run goes on to read them and start phase 2.               *)
C9_Flags ==
    /\ args.skip_planning =>
          /\ kickoffs["research_design_crew"] = 0
          /\ ~prompted
          /\ keyRead = NoKey
          /\ lastError # DesignDocsError
          /\ pc \notin {"design_kickoff", "p1_check", "p1_prompt"}
    /\ (args.yes /\ ~args.skip_planning) =>
          /\ Started(1) => kickoffs["research_design_crew"] = 1
          /\ ~prompted
          /\ keyRead = NoKey
          /\ pc # "p1_prompt"
          /\ lastError # NotApproved

C9_Witness ==
    /\ args.skip_planning /\ args.yes
    /\ disk[HYPOTHESIS] = Absent
    /\ kickoffs["experiment_design_crew"] = 1

IsErrorMessage(v) ==
    \/ \E e \in RequestExceptions : v = ConnectPrefix \o e
    \/ \E e \in OtherExceptions : v = UnexpectedPrefix \o e

(* C10: with a non-empty base URL every call returns a string and never    *)
(* raises; after a connection error, a timeout, an HTTP error status, a    *)
(* body that is not JSON or a JSON body that cannot be walked as an object *)
(* with a list of result objects, the string is one of the two error       *)
(* messages. Only an empty base URL makes the call raise, it raises        *)
(* ValueError, and no HTTP request has been sent by then.                  *)
C10_FailuresAsValues ==
    /\ tool.outcome = "raised" =>
          /\ tool.searxng_base_url = ""
          /\ tool.value = "ValueError"
          /\ tool.requests = 0
    /\ tool.searxng_base_url = "" =>
          /\ tool.requests = 0
          /\ tool.pc \in {"idle", "check_url", "done"}
          /\ tool.pc = "done" => tool.outcome = "raised"
    /\ (tool.pc = "done" /\ tool.searxng_base_url # "") =>
          /\ tool.outcome = "returned"
          /\ tool.requests = 1
          /\ ( \/ tool.failure # "none"
               \/ tool.response.status >= 400
               \/ tool.response.body.json # "object"
               \/ tool.response.body.results \in {"null", "number", "string"}
               \/ \E i \in DOMAIN tool.response.body.items :
                     ~tool.response.body.items[i].isObject )
             => IsErrorMessage(tool.value)

C10_Witness ==
    /\ tool.pc = "done"
    /\ tool.searxng_base_url # ""
    /\ tool.response.status = 200
    /\ tool.response.body.results = "array"
    /\ Len(tool.response.body.items) = 2
    /\ tool.response.body.items[1].isObject
    /\ ~tool.response.body.items[2].isObject
    /\ tool.value = UnexpectedPrefix \o "AttributeError"

\* The positions of the results that have a non-empty title and url
Qualifying(items) ==
    {i \in DOMAIN items :
        /\ items[i].title \notin {None, ""}
        /\ items[i].url \notin {None, ""}}

\* The k-th qualifying position, in the order of the response
NthQualifying(items, k) ==
    CHOOSE i \in Qualifying(items) :
        Cardinality({j \in Qualifying(items) : j < i}) = k - 1

\* The block expected for one result
Block(r) ==
    "Title: " \o r.title \o "\nURL: " \o r.url \o "\nContent: "
        \o (IF r.content = None THEN "None" ELSE r.content) \o "\n---"

ExpectedBlocks(items) ==
    [k \in 1..Cardinality(Qualifying(items)) |-> Block(items[NthQualifying(items, k)])]

(* C11: when a call ends without any failure (status 200, a JSON object    *)
(* whose results could be walked), it returns the blocks of exactly the    *)
(* results with a non-empty title and a non-empty url, joined by newlines  *)
(* in the order of the response, and it returns the no-results message     *)
(* exactly when no result qualifies, a missing "results" key included.     *)
C11_FormattedResults ==
    (tool.pc = "done" /\ tool.failure = "none") =>
        LET items == tool.response.body.items IN
        /\ tool.outcome = "returned"
        /\ tool.response.status = 200
        /\ tool.response.body.json = "object"
        /\ (tool.value = NoResults) <=> (Qualifying(items) = {})
        /\ Qualifying(items) # {} => tool.value = Join(ExpectedBlocks(items))
        /\ tool.response.body.results = "missing" => tool.value = NoResults

C11_Witness ==
    /\ tool.pc = "done"
    /\ tool.failure = "none"
    /\ Len(tool.response.body.items) = 2
    /\ tool.response.body.items[1].title = "B"
    /\ tool.response.body.items[2].title = "A"
    /\ Qualifying(tool.response.body.items) = {1, 2}
    /\ tool.response.body.items[1].content = None
    /\ tool.value = Join(<<Block(tool.response.body.items[1]),
                           Block(tool.response.body.items[2])>>)

FileHandlerPositions == {i \in DOMAIN handlers : handlers[i].kind = "FileHandler"}

(* C12: after any sequence of setup_logger calls the root logger has at    *)
(* most one FileHandler, and it is the one of the last call; every         *)
(* FileHandler of an earlier call has been removed and closed, so the only *)
(* open log stream is that of the attached FileHandler; the stdout         *)
(* StreamHandler is still the first handler.                               *)
C12_OneFileHandler ==
    /\ Cardinality(FileHandlerPositions) <= 1
    /\ Len(handlers) >= 1
    /\ handlers[1].kind = "StreamHandler" /\ handlers[1].file = "stdout"
    /\ Len(handlers) = 1 + Cardinality(FileHandlerPositions)
    /\ \A i \in FileHandlerPositions :
          /\ loggerCalls # <<>>
          /\ handlers[i].file = loggerCalls[Len(loggerCalls)].file
          /\ handlers[i].mode = (IF loggerCalls[Len(loggerCalls)].append THEN "a" ELSE "w")
    /\ Len(openLogs) = Cardinality(FileHandlerPositions)
    /\ \A k \in DOMAIN openLogs : \E i \in FileHandlerPositions : handlers[i] = openLogs[k]

C12_Witness ==
    /\ Len(loggerCalls) = 3
    /\ loggerCalls[2].file = "experimentation.log"
    /\ loggerCalls[3] = [file |-> "run.log", append |-> TRUE]
    /\ handlers = <<[kind |-> "StreamHandler", file |-> "stdout", mode |-> "w"],
                    [kind |-> "FileHandler", file |-> "run.log", mode |-> "a"]>>
    /\ Len(openLogs) = 1

(* C13, as claimed: a text handed from one phase to the next (methodology  *)
(* after phase 1, protocol after phase 2, results after phase 3) was       *)
(* written by its crew during this run.                                    *)
C13_Original ==
    /\ 1 \in returned => METHODOLOGY \in written
    /\ 2 \in returned => EXPERIMENT_PROTOCOL \in written
    /\ 3 \in returned => EXPERIMENT_RESULTS \in written

\* The text handed on for artifact a is v: it is what the file holds, from
\* this run when the crew wrote the file in this run, else from before.
HandedOn(a, v) ==
    /\ v = FileText(a)
    /\ a \in written => v \in {"", "this run " \o a}
    /\ a \notin written => v \in {"", "prior " \o a}

(* C13, amended: a text handed from one phase to the next is the text of   *)
(* its file as found on disk after the producing step. It is the text the  *)
(* crew wrote during this run if the crew wrote the file in this run;      *)
(* otherwise it is what an earlier run left there, which is always the     *)
(* case for the methodology under --skip-planning (the empty string when   *)
(* the file is absent). The protocol and results files exist when handed   *)
(* on.                                                                     *)
C13_Handoff ==
    /\ 1 \in returned =>
          /\ HandedOn(METHODOLOGY, methodology_content)
          /\ args.skip_planning => METHODOLOGY \notin written
          /\ ~args.skip_planning => disk[METHODOLOGY] # Absent
    /\ 2 \in returned =>
          /\ HandedOn(EXPERIMENT_PROTOCOL, experiment_protocol_content)
          /\ disk[EXPERIMENT_PROTOCOL] # Absent
    /\ 3 \in returned =>
          /\ HandedOn(EXPERIMENT_RESULTS, experiment_results_content)
          /\ disk[EXPERIMENT_RESULTS] # Absent

C13_Witness ==
    /\ ~args.skip_planning
    /\ 2 \in returned
    /\ METHODOLOGY \in written
    /\ methodology_content = "this run " \o METHODOLOGY
    /\ EXPERIMENT_PROTOCOL \notin written
    /\ experiment_protocol_content = "prior " \o EXPERIMENT_PROTOCOL

\* create_project_directories has run
DirectoriesCreated == pc = "phase1" \/ phaseLog # <<>>

(* C14: LOGS_DIR exists whenever setup_logger opens a log file: no call of *)
(* setup_logger, the initial one for run.log included, is made before      *)
(* create_project_directories has run, and no run ends on a missing        *)
(* LOGS_DIR.                                                               *)
C14_LogsDirBeforeLogger ==
    /\ loggerCalls # <<>> => DirectoriesCreated
    /\ lastError # "Traceback: FileNotFoundError"

====
